---- MODULE Spec2Model ----
(***************************************************************************)
(* State-machine models of the drivers and test items of the repository.   *)
(* Each program has its own variables and its own specification; the       *)
(* variables of the other programs stay parked while one of them runs:     *)
(*   Spec        the INA220 power-monitor driver (upyb_INA220.py)          *)
(*   SpecTeensy  the Teensy4 SimpleRPC driver (Teensy4.py)                 *)
(*   SpecPyb     the pyboard2 REPL wrapper (upybrd.py)                     *)
(*   SpecItem    the test items of pybrd00xx (pybrd00xx.py)                *)
(*   SpecSupply  the relay GPIO operations of SupplyStats (upyb_supplies.py) *)
(*                                                                         *)
(* INA220.                                                                 *)
(* The driver is single threaded.  Each statement that touches the bus,    *)
(* the strobe pin or the clock is one step; the call stack is explicit so  *)
(* that reset / set_config / read_shunt_voltage behave the same whether    *)
(* they are called by the user or by another method.  The I2C transport    *)
(* and the device behind it are the environment: a register read may       *)
(* return any 16-bit word (drawn from Words), a write always returns.      *)
(*                                                                         *)
(* Units.  Python computes the measurements in floating point; the model   *)
(* keeps them exact as a fraction val/den of a fixed unit:                 *)
(*   bus voltage    val counts of 1 mV   (factor 0.004 V = 4 mV per LSB)   *)
(*   shunt voltage  val counts of 10 uV  (factor 0.000010 V per LSB)       *)
(*   current        val/den counts of 10 uA (shunt counts / ohms)          *)
(***************************************************************************)
EXTENDS Integers, Sequences, FiniteSets, TLC

VARIABLES
    pin,              \* level of strobe pin X3 (self.pin)
    INA220_ADDRESS,   \* self.INA220_ADDRESS
    name,             \* self.name
    rsense,           \* self.rsense
    SAMPLES,          \* self.SAMPLES
    config_register,  \* self.config_register
    constructed,      \* __init__ has returned: the instance exists
    stack,            \* call stack, innermost frame last: [fn, pc]
    log,              \* events of the current public operation, in order
    rv,               \* value handed back by the last return (or the raise)
    op,               \* public operation in progress / last finished
    calls,            \* public calls made after construction
    cfg_val,          \* set_config: parameter val
    count,            \* _conversion_ready: iterations of the for loop begun
    vbus_reg,         \* _conversion_ready: local vbus_reg
    volt,             \* _conversion_ready: local volt (Unbound until assigned)
    vshunt_raw,       \* read_shunt_voltage: local _vshunt
    last_bus,         \* history: the last reading read_bus_voltage returned
                      \* in an earlier call, and the raw word it came from
    \* Teensy4
    t_rpc,            \* self.rpc: "None", "open" or "closed"
    t_op,             \* method of Teensy4 in progress / last finished
    t_pc,             \* statement the method is at ("idle" between calls)
    t_response,       \* init: local version_response
    t_ret,            \* what the last finished method handed back
    t_log,            \* levels of the messages given to self.logger, in order
    t_calls,          \* calls made on the Teensy4 instance
    \* pyboard2
    p_lock,           \* self.lock: 0 when free, else the thread holding it
    p_raw,            \* whether the board is in the raw REPL
    p_api,            \* per thread: the API method in progress ("none" if idle)
    p_calls,          \* per thread: API calls made
    p_ret,            \* per thread: what its last finished API call returned
    s_pc,             \* per thread: statement of server_cmd it is at
    s_args,           \* per thread: arguments of its server_cmd call
    s_out,            \* per thread: server_cmd locals ret and ret_err
    s_ret,            \* per thread: what its last server_cmd call returned
    v_pc,             \* _verify_single_cmd_ret: statement reached ("returned"
                      \* once it has returned and its locals are still kept)
    v_cmd,            \* _verify_single_cmd_ret: argument cmd_dict
    v_retry,          \* _verify_single_cmd_ret: local retry
    v_succeeded,      \* _verify_single_cmd_ret: local succeeded
    v_success,        \* _verify_single_cmd_ret: local success
    v_result,         \* _verify_single_cmd_ret: local result
    v_sends,          \* history: commands sent by the call in progress
    v_polls,          \* history: polls made by the call in progress
    v_stale,          \* history: a poll was made after a poll that matched
    \* pybrd00xx
    i_pyb,            \* self.pyb: "None" until SETUP stores the driver object
    i_port,           \* self.pyb_port
    i_item,           \* test item in progress / last run
    i_pc,             \* statement the item is at ("idle" between items)
    i_events,         \* calls the item made on the framework and the driver
    i_result,         \* result the item gave item_end
    i_raised,         \* exception that left the item ("" if none)
    i_runs,           \* items run so far
    \* SupplyStats
    g_config,         \* the expander's configuration register (command 3)
    g_output,         \* the expander's output register (command 1)
    g_built,          \* whether SupplyStats.__init__ has run
    g_op,             \* method of SupplyStats in progress / last finished
    g_pc,             \* statement the method is at ("idle" between calls)
    g_channel,        \* _set_ina_channel: argument channel
    g_cache,          \* local reg_cache / config_reg_cache
    g_log,            \* register reads, writes and sleeps of the method
    g_ret,            \* what the last finished method returned
    g_calls,          \* calls made on the instance
    g_p67             \* history: bits 6-7 of the register before __init__

inaVars == <<pin, INA220_ADDRESS, name, rsense, SAMPLES, config_register,
             constructed, stack, log, rv, op, calls, cfg_val, count, vbus_reg,
             volt, vshunt_raw, last_bus>>

teensyVars == <<t_rpc, t_op, t_pc, t_response, t_ret, t_log, t_calls>>

verifyVars == <<v_pc, v_cmd, v_retry, v_succeeded, v_success, v_result,
                v_sends, v_polls, v_stale>>

pybVars == <<p_lock, p_raw, p_api, p_calls, p_ret, s_pc, s_args, s_out, s_ret,
             verifyVars>>

itemVars == <<i_pyb, i_port, i_item, i_pc, i_events, i_result, i_raised,
              i_runs>>

supplyVars == <<g_config, g_output, g_built, g_op, g_pc, g_channel, g_cache,
                g_log, g_ret, g_calls, g_p67>>

\* the variables of the programs other than the INA220 driver
nonIna == <<teensyVars, pybVars, itemVars, supplyVars>>

\* the variables of the programs other than the Teensy4 driver
nonTeensy == <<inaVars, pybVars, itemVars, supplyVars>>

\* the variables of the programs other than pyboard2
nonPyb == <<inaVars, teensyVars, itemVars, supplyVars>>

\* the variables of the programs other than the test items
nonItem == <<inaVars, teensyVars, pybVars, supplyVars>>

\* the variables of the programs other than SupplyStats
nonSupply == <<inaVars, teensyVars, pybVars, itemVars>>

vars == <<inaVars, nonIna>>

-----------------------------------------------------------------------------
(* Bounds of the model *)

\* public operations called on the instance after its construction
MaxCalls == 2

\* 16-bit words the transport may return and the user may pass to set_config:
\* 0, 1, 2, 3 (ready bit alone / with neighbours), 0x0064, 0x1000 (not ready),
\* 0x1002, 0x1007 (ready, status bits set), 0x399F (reset default),
\* 0x3C07 / 0x3C1F / 0x3C7F (canonical configurations), 0x7FFF, 0x8000,
\* 0x8064, 0xB99F (reset pattern), 0xFFFF
Words == {0, 1, 2, 3, 100, 4096, 4098, 4103, 14751, 15367, 15391, 15487,
          32767, 32768, 32868, 47519, 65535}

\* every value of a 16-bit register
Word16 == 0 .. 65535

\* sample-count selectors given to the constructor (4-bit field)
SampleSelectors == {0, 3, 15}

\* shunt resistances given to the constructor (ohms, nonzero)
ShuntOhms == {1, 75}

\* the devices the constructor is called for: bus address, display name and
\* shunt resistance
Devices == {[addr |-> 64, name |-> "LOW", rsense |-> 75],
            [addr |-> 65, name |-> "HIGH", rsense |-> 1]}

-----------------------------------------------------------------------------
(* Program constants *)

INA220_CONFIG_RESET_VALUE == 14751              \* 0x399F
RESET_PATTERN == 47519                          \* 0xB99F
INA220_CONFIG == 0
INA220_SV == 1
INA220_BV == 2
INA220_CONVERSON_READY == 2                     \* 0x0002, CNVR bit
INA220_VBUS_LSB_MV == 4                         \* 0.004 V
INA220_VBUS_SHIFT == 3
INA220_CONFIG_BVOLTAGERANGE_32V == 8192         \* 0x2000
INA220_CONFIG_GAIN_8_320MV == 6144              \* 0x1800
INA220_CONFIG_BADCRES_12BIT == 1024             \* 0x0400
INA220_CONFIG_MODE_MASK == 7
INA220_CONFIG_MODE_SANDBVOLT_CONTINUOUS == 7
INA220_CONFIG_MODE_SANDBVOLT_TRIGGERED == 3
INA220_CONFIG_MODE_SVOLT_TRIGGERED == 1
INA220_SVOLT_SIGN == 32768                      \* 0x8000
INA220_SVOLT_SIGN_2BYTES == 65535               \* 0xFFFF
INA220_SVOLT_MAGNITUDE_MASK == 32767            \* 0x7FFF
RETRY_COUNT == 10                               \* range(10)
SLEEP_MS == 100                                 \* sleep(0.1)
SAMPLES_SHIFT == 3
BYTE_MASK == 255
BYTE_BITS == 8

\* marks a Python local that has not been assigned
Unbound == -1

-----------------------------------------------------------------------------
(* Integer operators of Python, on non-negative integers *)

RECURSIVE BitAnd(_, _)
BitAnd(a, b) ==
    IF a = 0 \/ b = 0 THEN 0
    ELSE (a % 2) * (b % 2) + 2 * BitAnd(a \div 2, b \div 2)

RECURSIVE BitOr(_, _)
BitOr(a, b) ==
    IF a = 0 THEN b
    ELSE IF b = 0 THEN a
    ELSE (IF a % 2 = 1 \/ b % 2 = 1 THEN 1 ELSE 0) + 2 * BitOr(a \div 2, b \div 2)

Shl(a, n) == a * (2 ^ n)

Shr(a, n) == a \div (2 ^ n)

-----------------------------------------------------------------------------
(* Pure computations of the driver *)

\* mutant of ConfigRegister: the selector is or-ed in without its shift
ConfigRegister_unshifted(samples) ==
    BitOr(BitOr(BitOr(BitOr(INA220_CONFIG_MODE_SANDBVOLT_CONTINUOUS, samples),
                      INA220_CONFIG_BADCRES_12BIT),
                INA220_CONFIG_GAIN_8_320MV),
          INA220_CONFIG_BVOLTAGERANGE_32V)

\* __init__: the five configuration fields or-ed together
ConfigRegister(samples) ==
    BitOr(BitOr(BitOr(BitOr(INA220_CONFIG_MODE_SANDBVOLT_CONTINUOUS,
                            Shl(samples, SAMPLES_SHIFT)),
                      INA220_CONFIG_BADCRES_12BIT),
                INA220_CONFIG_GAIN_8_320MV),
          INA220_CONFIG_BVOLTAGERANGE_32V)

\* write_word: the two bytes put on the bus, high byte first
WriteWordBytes(val) ==
    <<BitAnd(Shr(val, BYTE_BITS), BYTE_MASK), BitAnd(val, BYTE_MASK)>>

\* the 16-bit word the device receives from those two bytes
WordOfBytes(b) == b[1] * 256 + b[2]

\* the two bytes the transport hands back for the register word w
BytesOfWord(w) == <<w \div 256, w % 256>>

\* read_word: value[0] << 8 | value[1]
ReadWordOutput(value) == BitOr(Shl(value[1], BYTE_BITS), value[2])

\* mutant of ResetOk: compares the read-back with the pattern written
ResetOk_pattern(val) == val = RESET_PATTERN

\* reset: the comparison of the read-back
ResetOk(val) == val = INA220_CONFIG_RESET_VALUE

\* mutant of SetConfigOk: compares the read-back with the value written
SetConfigOk_written(config_mode, val) == config_mode = val

\* set_config: the comparison of the read-back (val is the value written)
SetConfigOk(config_mode, val) == config_mode = config_register

\* the diagnostics config_explain can print
ConfigCategories == {"continuous shunt and voltage", "triggered shunt and voltage",
                     "triggered shunt voltage", "unknown mode"}

\* config_explain: the diagnostic category (only printed when DEBUG)
ConfigExplain(read_config) ==
    LET mode == BitAnd(read_config, INA220_CONFIG_MODE_MASK) IN
    IF mode = INA220_CONFIG_MODE_SANDBVOLT_CONTINUOUS THEN "continuous shunt and voltage"
    ELSE IF mode = INA220_CONFIG_MODE_SANDBVOLT_TRIGGERED THEN "triggered shunt and voltage"
    ELSE IF mode = INA220_CONFIG_MODE_SVOLT_TRIGGERED THEN "triggered shunt voltage"
    ELSE "unknown mode"

\* _conversion_ready: vbus_reg & 0x2
ConversionReadyBit(reg) == BitAnd(reg, INA220_CONVERSON_READY) # 0

\* mutant of BusVolt: the status bits are not shifted out
BusVolt_no_shift(reg) == reg * INA220_VBUS_LSB_MV

\* _conversion_ready: (vbus_reg >> 3) * 0.004, in millivolts
BusVolt(reg) == Shr(reg, INA220_VBUS_SHIFT) * INA220_VBUS_LSB_MV

\* mutant of ShuntMagnitude: one's complement, the "+ 1" is missing
ShuntMagnitude_no_plus_one(raw) ==
    IF BitAnd(raw, INA220_SVOLT_SIGN) # 0
    THEN INA220_SVOLT_SIGN_2BYTES - raw
    ELSE BitAnd(raw, INA220_SVOLT_MAGNITUDE_MASK)

\* mutant of ShuntMagnitude: the sign bit is masked off and nothing else
ShuntMagnitude_mask_only(raw) == BitAnd(raw, INA220_SVOLT_MAGNITUDE_MASK)

\* read_shunt_voltage: the decode of _vshunt, in counts of 10 uV
ShuntMagnitude(raw) ==
    IF BitAnd(raw, INA220_SVOLT_SIGN) # 0
    THEN (INA220_SVOLT_SIGN_2BYTES - raw) + 1
    ELSE BitAnd(raw, INA220_SVOLT_MAGNITUDE_MASK)

-----------------------------------------------------------------------------
(* Values passed between frames *)

NoValue == [kind |-> "none", ok |-> FALSE, val |-> 0, den |-> 1]

BoolValue(b) == [kind |-> "bool", ok |-> b, val |-> 0, den |-> 1]

PairValue(b, v) == [kind |-> "pair", ok |-> b, val |-> v, den |-> 1]

Raised == [kind |-> "raise", ok |-> FALSE, val |-> 0, den |-> 1]

\* mutant of Divide: the voltage is handed back undivided
Divide_undivided(success, voltage, ohms) ==
    [kind |-> "pair", ok |-> success, val |-> voltage, den |-> 1]

\* measure_current: voltage / self.rsense (a zero divisor raises)
Divide(success, voltage, ohms) ==
    IF ohms = 0 THEN Raised
    ELSE [kind |-> "pair", ok |-> success, val |-> voltage, den |-> ohms]

-----------------------------------------------------------------------------
(* Events and the call stack *)

Ev(kind, fn, reg, val, ok) ==
    [kind |-> kind, name |-> fn, reg |-> reg, val |-> val, ok |-> ok]

WriteEv(reg, val) == Ev("write", "", reg, val, TRUE)
ReadEv(reg, val) == Ev("read", "", reg, val, TRUE)
SleepEv(ms) == Ev("sleep", "", 0, ms, TRUE)
PinEv(level) == Ev("pin", "", 0, level, TRUE)
CallEv(fn) == Ev("call", fn, 0, 0, TRUE)
ReturnEv(fn, value) == Ev("return", fn, 0, value.val, value.ok)
RaiseEv(fn) == Ev("raise", fn, 0, 0, FALSE)

Frame(fn, pc) == [fn |-> fn, pc |-> pc]

Top == stack[Len(stack)]

At(fn, pc) == stack # <<>> /\ Top.fn = fn /\ Top.pc = pc

Goto(pc) == [stack EXCEPT ![Len(stack)].pc = pc]

Pop == SubSeq(stack, 1, Len(stack) - 1)

Idle == constructed /\ stack = <<>>

-----------------------------------------------------------------------------
(* Steps shared by the methods *)

ident == <<INA220_ADDRESS, name, rsense, SAMPLES, config_register>>

\* no earlier reading of the bus voltage
NoBus == [set |-> FALSE, raw |-> 0, val |-> 0]

crLocals == <<count, vbus_reg, volt>>

\* a method call: the caller resumes at retpc, the callee starts at startpc
Call(retpc, fn, startpc) ==
    /\ stack' = Append(Goto(retpc), Frame(fn, startpc))
    /\ log' = Append(log, CallEv(fn))

\* a return of value from the innermost frame, after the events evs
Return(evs, value) ==
    /\ stack' = Pop
    /\ rv' = value
    /\ log' = (log \o evs) \o <<ReturnEv(Top.fn, value)>>

\* an exception nobody catches: every frame is unwound
Raise ==
    /\ stack' = <<>>
    /\ rv' = Raised
    /\ log' = Append(log, RaiseEv(Top.fn))

\* write_word(reg_addr, val): the event of the bus write (it returns True)
WriteWord(reg, val) == WriteEv(reg, WordOfBytes(WriteWordBytes(val)))

\* read_word(reg_addr): the words the call may return
ReadWord == {ReadWordOutput(BytesOfWord(w)) : w \in Words}

-----------------------------------------------------------------------------
(* Teensy4.__init__ *)

my_version == "0.1.0"

NoResponse == [success |-> FALSE, version |-> ""]

TNone == [kind |-> "none", ok |-> FALSE, version |-> "", exc |-> ""]

TeensyInit ==
    /\ t_rpc = "None"
    /\ t_op = "none"
    /\ t_pc = "idle"
    /\ t_response = NoResponse
    /\ t_ret = TNone
    /\ t_log = <<>>
    /\ t_calls = 0

------------------------------------------------------------------------------
(* pyboard2.__init__ *)

\* threads sharing the one pyboard2 instance
Threads == {1, 2}

\* an entry of the server's ret queue: the dict keys the wrapper reads
NoEntry == [method |-> "", success |-> FALSE]

NoArgs == [is_list |-> TRUE, repl_enter |-> TRUE, repl_exit |-> TRUE,
           blocking |-> TRUE]

\* (success, result) as server_cmd returns it: result is a list of entries
\* when success, a message otherwise. With it, the record of the call that
\* returned it: its arguments, whether it performed enter_raw_repl, and
\* whether the board was in the raw REPL when it returned
SResult(ok, items, msg) ==
    [ok |-> ok, items |-> items, msg |-> msg,
     args |-> NoArgs, entered |-> FALSE, raw |-> FALSE]

NoSResult == SResult(FALSE, <<>>, "")

\* (success, result) as an API method returns it
PResult(api, ok, msg, entry) ==
    [api |-> api, ok |-> ok, msg |-> msg, entry |-> entry]

NoPResult == PResult("none", FALSE, "", NoEntry)

\* ret = None / b'' and ret_err = False / b''
NoOut == [has_ret |-> FALSE, items |-> <<>>, ret_err |-> FALSE]

NoCmd == [has_method |-> FALSE, has_args |-> FALSE]

PybInit ==
    /\ p_lock = 0
    /\ p_raw = FALSE
    /\ p_api = [t \in Threads |-> "none"]
    /\ p_calls = [t \in Threads |-> 0]
    /\ p_ret = [t \in Threads |-> NoPResult]
    /\ s_pc = [t \in Threads |-> "idle"]
    /\ s_args = [t \in Threads |-> NoArgs]
    /\ s_out = [t \in Threads |-> NoOut]
    /\ s_ret = [t \in Threads |-> NoSResult]
    /\ v_pc = "idle"
    /\ v_cmd = NoCmd
    /\ v_retry = 0
    /\ v_succeeded = FALSE
    /\ v_success = FALSE
    /\ v_result = NoSResult
    /\ v_sends = 0
    /\ v_polls = 0
    /\ v_stale = FALSE

------------------------------------------------------------------------------
(* pybrd00xx.__init__ *)

ItemInit ==
    /\ i_pyb = "None"
    /\ i_port = "None"
    /\ i_item = "none"
    /\ i_pc = "idle"
    /\ i_events = <<>>
    /\ i_result = "none"
    /\ i_raised = ""
    /\ i_runs = 0

------------------------------------------------------------------------------
(* SupplyStats, before __init__ *)

P67_MASK == 192

\* the expander's registers hold any byte before the instance is built
SupplyInit ==
    /\ g_config \in 0..BYTE_MASK
    /\ g_output \in {0, BYTE_MASK}
    /\ g_built = FALSE
    /\ g_op = "none"
    /\ g_pc = "idle"
    /\ g_channel = ""
    /\ g_cache = 0
    /\ g_log = <<>>
    /\ g_ret = "none"
    /\ g_calls = 0
    /\ g_p67 = BitAnd(g_config, P67_MASK)

\* the expander while another program runs: its power-on registers
SupplyParked ==
    /\ SupplyInit
    /\ g_config = BYTE_MASK
    /\ g_output = BYTE_MASK

\* the state of the other programs while the INA220 driver runs
NonInaParked == TeensyInit /\ PybInit /\ ItemInit /\ SupplyParked

------------------------------------------------------------------------------
(* INA220.__init__ *)

InaInit ==
    /\ pin \in {0, 1}
    /\ INA220_ADDRESS = 0
    /\ name = ""
    /\ rsense = 0
    /\ SAMPLES = 0
    /\ config_register = 0
    /\ constructed = FALSE
    /\ stack = <<>>
    /\ log = <<>>
    /\ rv = NoValue
    /\ op = "none"
    /\ calls = 0
    /\ cfg_val = 0
    /\ count = 0
    /\ vbus_reg = 0
    /\ volt = Unbound
    /\ vshunt_raw = 0
    /\ last_bus = NoBus

Init == InaInit /\ NonInaParked

\* the INA220 variables while another program runs
InaParked == InaInit /\ pin = 0

init_begin ==
    /\ ~constructed /\ stack = <<>> /\ op = "none"
    /\ \E dev \in Devices, ohms \in ShuntOhms, samples \in SampleSelectors :
          /\ ohms = dev.rsense
          /\ INA220_ADDRESS' = dev.addr
          /\ name' = dev.name
          /\ rsense' = ohms
          /\ SAMPLES' = samples
          /\ config_register' = ConfigRegister(samples)
    /\ pin' = 0
    /\ op' = "__init__"
    /\ stack' = <<Frame("__init__", "reset")>>
    /\ log' = <<CallEv("__init__"), PinEv(0)>>
    /\ UNCHANGED <<nonIna, last_bus, constructed, rv, calls, cfg_val, crLocals, vshunt_raw>>

init_reset ==
    /\ At("__init__", "reset")
    /\ Call("set_config", "reset", "write")
    /\ UNCHANGED <<nonIna, last_bus, pin, ident, constructed, rv, op, calls, cfg_val, crLocals, vshunt_raw>>

\* mutant of init_set_config: a failed reset skips the configuration write
init_set_config_skipped ==
    /\ At("__init__", "set_config")
    /\ IF rv.ok
       THEN /\ cfg_val' = config_register
            /\ Call("read_config", "set_config", "write")
       ELSE /\ stack' = Goto("read_config")
            /\ UNCHANGED <<cfg_val, log>>
    /\ UNCHANGED <<nonIna, last_bus, pin, ident, constructed, rv, op, calls, crLocals, vshunt_raw>>

init_set_config ==
    /\ At("__init__", "set_config")
    /\ cfg_val' = config_register
    /\ Call("read_config", "set_config", "write")
    /\ UNCHANGED <<nonIna, last_bus, pin, ident, constructed, rv, op, calls, crLocals, vshunt_raw>>

init_read_config ==
    /\ At("__init__", "read_config")
    /\ \E config_value \in ReadWord :
          LET category == ConfigExplain(config_value) IN
          /\ category \in ConfigCategories
          /\ Return(<<ReadEv(INA220_CONFIG, config_value)>>, NoValue)
    /\ constructed' = TRUE
    /\ UNCHANGED <<nonIna, last_bus, pin, ident, op, calls, cfg_val, crLocals, vshunt_raw>>

-----------------------------------------------------------------------------
(* reset, set_config *)

reset_write ==
    /\ At("reset", "write")
    /\ log' = Append(log, WriteWord(INA220_CONFIG, RESET_PATTERN))
    /\ stack' = Goto("read")
    /\ UNCHANGED <<nonIna, last_bus, pin, ident, constructed, rv, op, calls, cfg_val, crLocals, vshunt_raw>>

reset_read ==
    /\ At("reset", "read")
    /\ \E val \in ReadWord :
          Return(<<ReadEv(INA220_CONFIG, val)>>, BoolValue(ResetOk(val)))
    /\ UNCHANGED <<nonIna, last_bus, pin, ident, constructed, op, calls, cfg_val, crLocals, vshunt_raw>>

\* mutant of set_config_write: the value written becomes the canonical one
set_config_write_adopts ==
    /\ At("set_config", "write")
    /\ log' = Append(log, WriteWord(INA220_CONFIG, cfg_val))
    /\ stack' = Goto("read")
    /\ config_register' = cfg_val
    /\ UNCHANGED <<nonIna, last_bus, pin, INA220_ADDRESS, name, rsense, SAMPLES, constructed, rv,
                   op, calls, cfg_val, crLocals, vshunt_raw>>

set_config_write ==
    /\ At("set_config", "write")
    /\ log' = Append(log, WriteWord(INA220_CONFIG, cfg_val))
    /\ stack' = Goto("read")
    /\ UNCHANGED <<nonIna, last_bus, pin, ident, constructed, rv, op, calls, cfg_val, crLocals, vshunt_raw>>

set_config_read ==
    /\ At("set_config", "read")
    /\ \E config_mode \in ReadWord :
          Return(<<ReadEv(INA220_CONFIG, config_mode)>>,
                 BoolValue(SetConfigOk(config_mode, cfg_val)))
    /\ UNCHANGED <<nonIna, last_bus, pin, ident, constructed, op, calls, cfg_val, crLocals, vshunt_raw>>

-----------------------------------------------------------------------------
(* _trigger, _conversion_ready *)

\* mutant of trigger_write: the commented-out line 166, the reset default is
\* written in place of the canonical configuration
trigger_write_reset_default ==
    /\ At("_trigger", "write")
    /\ Return(<<WriteWord(INA220_CONFIG, INA220_CONFIG_RESET_VALUE)>>, NoValue)
    /\ UNCHANGED <<nonIna, last_bus, pin, ident, constructed, op, calls, cfg_val, crLocals, vshunt_raw>>

trigger_write ==
    /\ At("_trigger", "write")
    /\ Return(<<WriteWord(INA220_CONFIG, config_register)>>, NoValue)
    /\ UNCHANGED <<nonIna, last_bus, pin, ident, constructed, op, calls, cfg_val, crLocals, vshunt_raw>>

\* the loop header "for count in range(10)" and the sleep that opens its body;
\* past the last iteration the method falls through to "return False, 0"
conversion_ready_loop ==
    /\ At("_conversion_ready", "loop")
    /\ IF count < RETRY_COUNT
       THEN /\ count' = count + 1
            /\ log' = Append(log, SleepEv(SLEEP_MS))
            /\ stack' = Goto("poll")
            /\ UNCHANGED <<rv, vbus_reg, volt>>
       ELSE /\ Return(<<>>, PairValue(FALSE, 0))
            /\ count' = 0 /\ vbus_reg' = 0 /\ volt' = Unbound
    /\ UNCHANGED <<nonIna, last_bus, pin, ident, constructed, op, calls, cfg_val, vshunt_raw>>

\* vbus_reg = read_word(BV); volt is assigned only under "if vbus_reg & 0x2"
conversion_ready_poll ==
    /\ At("_conversion_ready", "poll")
    /\ \E reg \in ReadWord :
          /\ vbus_reg' = reg
          /\ volt' = IF ConversionReadyBit(reg) THEN BusVolt(reg) ELSE volt
          /\ log' = Append(log, ReadEv(INA220_BV, reg))
    /\ stack' = Goto("return")
    /\ UNCHANGED <<nonIna, last_bus, pin, ident, constructed, rv, op, calls, cfg_val, count, vshunt_raw>>

\* mutant of conversion_ready_return: the return sits under the if, a poll
\* that is not ready goes round the loop again
conversion_ready_return_retry ==
    /\ At("_conversion_ready", "return")
    /\ IF volt = Unbound
       THEN /\ stack' = Goto("loop")
            /\ UNCHANGED <<rv, log, count, vbus_reg, volt>>
       ELSE /\ Return(<<>>, PairValue(TRUE, volt))
            /\ count' = 0 /\ vbus_reg' = 0 /\ volt' = Unbound
    /\ UNCHANGED <<nonIna, last_bus, pin, ident, constructed, op, calls, cfg_val, vshunt_raw>>

\* mutant of conversion_ready_return: volt starts as 0, so a poll that saw
\* the ready bit clear returns (True, 0)
conversion_ready_return_zero ==
    /\ At("_conversion_ready", "return")
    /\ IF volt = Unbound
       THEN Return(<<>>, PairValue(TRUE, 0))
       ELSE Return(<<>>, PairValue(TRUE, volt))
    /\ count' = 0 /\ vbus_reg' = 0 /\ volt' = Unbound
    /\ UNCHANGED <<nonIna, last_bus, pin, ident, constructed, op, calls, cfg_val, vshunt_raw>>

\* "return True, volt", in the loop body and outside the if: reading the local
\* volt before any assignment raises UnboundLocalError
conversion_ready_return ==
    /\ At("_conversion_ready", "return")
    /\ IF volt = Unbound
       THEN Raise
       ELSE Return(<<>>, PairValue(TRUE, volt))
    /\ count' = 0 /\ vbus_reg' = 0 /\ volt' = Unbound
    /\ UNCHANGED <<nonIna, last_bus, pin, ident, constructed, op, calls, cfg_val, vshunt_raw>>

-----------------------------------------------------------------------------
(* read_bus_voltage *)

read_bus_voltage_trigger ==
    /\ At("read_bus_voltage", "trigger")
    /\ Call("ready", "_trigger", "write")
    /\ UNCHANGED <<nonIna, last_bus, pin, ident, constructed, rv, op, calls, cfg_val, crLocals, vshunt_raw>>

read_bus_voltage_ready ==
    /\ At("read_bus_voltage", "ready")
    /\ Call("return", "_conversion_ready", "loop")
    /\ count' = 0 /\ vbus_reg' = 0 /\ volt' = Unbound
    /\ UNCHANGED <<nonIna, last_bus, pin, ident, constructed, rv, op, calls, cfg_val, vshunt_raw>>

\* mutant of read_bus_voltage_return: the reading is added to a running sum
\* kept from the earlier calls
read_bus_voltage_return_accumulating ==
    /\ At("read_bus_voltage", "return")
    /\ IF rv.ok
       THEN Return(<<>>, PairValue(rv.ok, rv.val + last_bus.val))
       ELSE Return(<<>>, PairValue(FALSE, 0))
    /\ UNCHANGED <<nonIna, last_bus, pin, ident, constructed, op, calls, cfg_val, crLocals, vshunt_raw>>

read_bus_voltage_return ==
    /\ At("read_bus_voltage", "return")
    /\ IF rv.ok
       THEN Return(<<>>, PairValue(rv.ok, rv.val))
       ELSE Return(<<>>, PairValue(FALSE, 0))
    /\ UNCHANGED <<nonIna, last_bus, pin, ident, constructed, op, calls, cfg_val, crLocals, vshunt_raw>>

-----------------------------------------------------------------------------
(* read_shunt_voltage *)

read_shunt_voltage_trigger ==
    /\ At("read_shunt_voltage", "trigger")
    /\ Call("ready", "_trigger", "write")
    /\ UNCHANGED <<nonIna, last_bus, pin, ident, constructed, rv, op, calls, cfg_val, crLocals, vshunt_raw>>

read_shunt_voltage_ready ==
    /\ At("read_shunt_voltage", "ready")
    /\ Call("check", "_conversion_ready", "loop")
    /\ count' = 0 /\ vbus_reg' = 0 /\ volt' = Unbound
    /\ UNCHANGED <<nonIna, last_bus, pin, ident, constructed, rv, op, calls, cfg_val, vshunt_raw>>

\* "if success:" and, when it holds, self.pin.value(1)
read_shunt_voltage_pin_high ==
    /\ At("read_shunt_voltage", "check")
    /\ IF rv.ok
       THEN /\ pin' = 1
            /\ log' = Append(log, PinEv(1))
            /\ stack' = Goto("read")
            /\ UNCHANGED rv
       ELSE /\ Return(<<>>, PairValue(FALSE, 0))
            /\ UNCHANGED pin
    /\ UNCHANGED <<nonIna, last_bus, ident, constructed, op, calls, cfg_val, crLocals, vshunt_raw>>

read_shunt_voltage_read ==
    /\ At("read_shunt_voltage", "read")
    /\ \E raw \in ReadWord :
          /\ vshunt_raw' = raw
          /\ log' = Append(log, ReadEv(INA220_SV, raw))
    /\ stack' = Goto("pin_low")
    /\ UNCHANGED <<nonIna, last_bus, pin, ident, constructed, rv, op, calls, cfg_val, crLocals>>

\* mutant of read_shunt_voltage_pin_low: the pin is left high
read_shunt_voltage_pin_stuck ==
    /\ At("read_shunt_voltage", "pin_low")
    /\ stack' = Goto("decode")
    /\ UNCHANGED <<nonIna, last_bus, pin, log, ident, constructed, rv, op, calls, cfg_val, crLocals, vshunt_raw>>

read_shunt_voltage_pin_low ==
    /\ At("read_shunt_voltage", "pin_low")
    /\ pin' = 0
    /\ log' = Append(log, PinEv(0))
    /\ stack' = Goto("decode")
    /\ UNCHANGED <<nonIna, last_bus, ident, constructed, rv, op, calls, cfg_val, crLocals, vshunt_raw>>

read_shunt_voltage_decode ==
    /\ At("read_shunt_voltage", "decode")
    /\ Return(<<>>, PairValue(TRUE, ShuntMagnitude(vshunt_raw)))
    /\ UNCHANGED <<nonIna, last_bus, pin, ident, constructed, op, calls, cfg_val, crLocals, vshunt_raw>>

-----------------------------------------------------------------------------
(* measure_current *)

measure_current_call ==
    /\ At("measure_current", "call")
    /\ Call("divide", "read_shunt_voltage", "trigger")
    /\ UNCHANGED <<nonIna, last_bus, pin, ident, constructed, rv, op, calls, cfg_val, crLocals, vshunt_raw>>

measure_current_divide ==
    /\ At("measure_current", "divide")
    /\ LET current == Divide(rv.ok, rv.val, rsense) IN
       IF current.kind = "raise" THEN Raise ELSE Return(<<>>, current)
    /\ UNCHANGED <<nonIna, last_bus, pin, ident, constructed, op, calls, cfg_val, crLocals, vshunt_raw>>

-----------------------------------------------------------------------------
(* The user of the instance: one public call at a time *)

Enter(fn, startpc, val) ==
    /\ Idle
    /\ calls < MaxCalls
    /\ calls' = calls + 1
    /\ op' = fn
    /\ stack' = <<Frame(fn, startpc)>>
    /\ log' = <<CallEv(fn)>>
    /\ rv' = NoValue
    /\ cfg_val' = val
    /\ vshunt_raw' = 0
    /\ last_bus' = IF op = "read_bus_voltage" /\ rv.kind = "pair" /\ rv.ok
                   THEN [set |-> TRUE,
                         raw |-> SelectSeq(log, LAMBDA e : e.kind = "read")[1].val,
                         val |-> rv.val]
                   ELSE last_bus
    /\ UNCHANGED <<nonIna, pin, ident, constructed, crLocals>>

call_reset ==
    /\ Idle
    /\ Enter("reset", "write", 0)

call_set_config ==
    /\ Idle
    /\ \E val \in Words : Enter("set_config", "write", val)

call_read_bus_voltage ==
    /\ Idle
    /\ Enter("read_bus_voltage", "trigger", 0)

call_read_shunt_voltage ==
    /\ Idle
    /\ Enter("read_shunt_voltage", "trigger", 0)

call_measure_current ==
    /\ Idle
    /\ Enter("measure_current", "call", 0)

-----------------------------------------------------------------------------

Next ==
    \/ init_begin
    \/ init_reset
    \/ init_set_config
    \/ init_read_config
    \/ reset_write
    \/ reset_read
    \/ set_config_write
    \/ set_config_read
    \/ trigger_write
    \/ conversion_ready_loop
    \/ conversion_ready_poll
    \/ conversion_ready_return
    \/ read_bus_voltage_trigger
    \/ read_bus_voltage_ready
    \/ read_bus_voltage_return
    \/ read_shunt_voltage_trigger
    \/ read_shunt_voltage_ready
    \/ read_shunt_voltage_pin_high
    \/ read_shunt_voltage_read
    \/ read_shunt_voltage_pin_low
    \/ read_shunt_voltage_decode
    \/ measure_current_call
    \/ measure_current_divide
    \/ call_reset
    \/ call_set_config
    \/ call_read_bus_voltage
    \/ call_read_shunt_voltage
    \/ call_measure_current

Spec == Init /\ [][Next]_vars

-----------------------------------------------------------------------------
(* Vocabulary of the properties *)

PublicOps == {"reset", "set_config", "read_bus_voltage", "read_shunt_voltage",
              "measure_current"}

\* the public operation fn has ended (by a return or by an exception)
Finished(fn) == op = fn /\ stack = <<>>

\* ... and it ended by returning
Returned(fn) == Finished(fn) /\ rv.kind # "raise"

IsBus(e) == e.kind \in {"write", "read"}

\* the bus transactions of the current operation, in order
Bus(l) == SelectSeq(l, IsBus)

IsBusVoltageRead(e) == e.kind = "read" /\ e.reg = 2

IsShuntRead(e) == e.kind = "read" /\ e.reg = 1

IsShuntCall(e) == e.kind = "call" /\ e.name = "read_shunt_voltage"

IsShuntReturn(e) == e.kind = "return" /\ e.name = "read_shunt_voltage"

\* the polls of the bus-voltage register made by the current operation
Polls == SelectSeq(log, IsBusVoltageRead)

\* the reads of the shunt-voltage register made by the current operation
ShuntReads == SelectSeq(log, IsShuntRead)

\* bit 1 (conversion ready) of a 16-bit word, by arithmetic
ReadyBitSet(r) == (r \div 2) % 2 = 1

\* the state before the constructor runs
Fresh == op = "none"

-----------------------------------------------------------------------------
(* C1, C4: what a poll with the ready bit clear does *)

\* C1: no public operation ever raises: every finished call of reset or
\* set_config handed back a boolean, every finished call of read_bus_voltage,
\* read_shunt_voltage or measure_current a (success, value) pair.
C1_NoOperationRaises ==
    \A fn \in PublicOps :
        Finished(fn) =>
            rv.kind = (IF fn \in {"reset", "set_config"} THEN "bool" ELSE "pair")

\* C4: a read_bus_voltage call all of whose polls saw the ready bit clear
\* returns (False, 0).
C4_NotReadyReturnsFalseZero ==
    ( /\ Finished("read_bus_voltage")
      /\ Len(Polls) > 0
      /\ \A i \in 1 .. Len(Polls) : ~ReadyBitSet(Polls[i].val) )
    => rv = PairValue(FALSE, 0)

-----------------------------------------------------------------------------
(* C2, C3: the configuration handshakes *)

\* C2: set_config(v) writes v to register 0, reads it back once and returns
\* True iff the read-back equals config_register, whatever v is; with an
\* echoing transport it returns True iff v is the canonical configuration.
C2_SetConfigComparesCanonical ==
    Finished("set_config") =>
        LET b == Bus(log) IN
        /\ Len(b) = 2
        /\ b[1] = WriteEv(0, cfg_val)
        /\ b[2].kind = "read" /\ b[2].reg = 0
        /\ rv = BoolValue(b[2].val = config_register)
        /\ (b[2].val = cfg_val => (rv.ok <=> cfg_val = config_register))

\* C2 witness: an echoed value other than the canonical one is reported failed
C2_Witness ==
    /\ Finished("set_config")
    /\ cfg_val # config_register
    /\ Bus(log)[2].val = cfg_val
    /\ rv = BoolValue(FALSE)

\* C3: reset() writes 0xB99F to register 0, reads it back and returns True
\* iff the read-back is 0x399F.
C3_ResetComparesDefault ==
    Finished("reset") =>
        LET b == Bus(log) IN
        /\ Len(b) = 2
        /\ b[1] = WriteEv(0, 47519)
        /\ b[2].kind = "read" /\ b[2].reg = 0
        /\ rv = BoolValue(b[2].val = 14751)

\* C3 witness: a reset whose read-back is the pattern just written fails
C3_Witness ==
    /\ Finished("reset")
    /\ Bus(log)[2].val = 47519
    /\ rv = BoolValue(FALSE)

-----------------------------------------------------------------------------
(* C5, C6, C7: the decodes *)

\* the shunt decode as the data sheet states it: a 16-bit two's complement
\* number, taken by magnitude
TwosComplementMagnitude(r) == IF r >= 32768 THEN 65536 - r ELSE r

\* C5 (as claimed): read_shunt_voltage() returns 32669 counts of 10 uV when
\* the raw shunt register value is 0x8064.
C5_Raw8064Gives32669 ==
    ( /\ Returned("read_shunt_voltage")
      /\ Len(ShuntReads) = 1
      /\ ShuntReads[1].val = 32868 )
    => rv = PairValue(TRUE, 32669)

\* C5 (amended): read_shunt_voltage() returns (0xFFFF - 0x8064) + 1 = 32668
\* counts of 10 uV (0.32668 V) when the raw shunt register value is 0x8064.
C5_Raw8064Gives32668 ==
    ( /\ Returned("read_shunt_voltage")
      /\ Len(ShuntReads) = 1
      /\ ShuntReads[1].val = 32868 )
    => rv = PairValue(TRUE, 32668)

\* C5 witness: a read_shunt_voltage call that read 0x8064 has returned
C5_Witness ==
    /\ Returned("read_shunt_voltage")
    /\ Len(ShuntReads) = 1
    /\ ShuntReads[1].val = 32868

\* C6: read_shunt_voltage() returns m counts of 10 uV for the raw value r it
\* read, m = r & 0x7FFF when bit 15 of r is clear and (0xFFFF - r) + 1 when it
\* is set; m lies in 0..32768 and raw 0x0064 gives 100.  The decode is also
\* compared on every 16-bit value, once, in the state before construction.
C6_ShuntDecode ==
    /\ Returned("read_shunt_voltage") =>
          /\ Len(ShuntReads) = 1
          /\ LET r == ShuntReads[1].val
                 m == IF r < 32768 THEN r % 32768 ELSE (65535 - r) + 1
             IN /\ rv = PairValue(TRUE, m)
                /\ m \in 0 .. 32768
                /\ (r = 100 => rv.val = 100)
    /\ Fresh =>
          \A r \in Word16 :
              /\ ShuntMagnitude(r) = TwosComplementMagnitude(r)
              /\ ShuntMagnitude(r) \in 0 .. 32768

\* C6 witness: the most negative raw value, 0x8000, came back as 32768 counts
C6_Witness ==
    /\ Returned("read_shunt_voltage")
    /\ Len(ShuntReads) = 1
    /\ ShuntReads[1].val = 32768
    /\ rv = PairValue(TRUE, 32768)

\* C7: when the polled bus-voltage value r has its ready bit set,
\* read_bus_voltage() returns (True, (r >> 3) * 4 mV); the three low bits do
\* not contribute; raw 0x1002 gives 512 counts = 2048 mV.  The decode is also
\* compared on every 16-bit value, once, in the state before construction.
C7_BusDecode ==
    /\ ( /\ Finished("read_bus_voltage")
         /\ Len(Polls) > 0
         /\ ReadyBitSet(Polls[Len(Polls)].val) ) =>
          LET r == Polls[Len(Polls)].val IN
          /\ rv = PairValue(TRUE, ((r - (r % 8)) \div 8) * 4)
          /\ (r = 4098 => rv.val = 2048)
    /\ Fresh =>
          \A r \in Word16 :
              /\ BusVolt(r) = ((r - (r % 8)) \div 8) * 4
              /\ BusVolt(r) = BusVolt(r - (r % 8))

\* C7 witness: 0x1007 (ready, all three low bits set) gave the 2048 mV of 0x1002
C7_Witness ==
    /\ Finished("read_bus_voltage")
    /\ Len(Polls) = 1
    /\ Polls[1].val = 4103
    /\ rv = PairValue(TRUE, 2048)

-----------------------------------------------------------------------------
(* C8: measure_current *)

\* C8: measure_current() calls read_shunt_voltage() exactly once (never more
\* at any point of the call) and, when that call returned (s, v), returns
\* (s, v / rsense), a current of 0 when s is False.
C8_MeasureCurrentDivides ==
    /\ op = "measure_current" => Len(SelectSeq(log, IsShuntCall)) <= 1
    /\ Returned("measure_current") =>
          LET inner == SelectSeq(log, IsShuntReturn) IN
          /\ Len(SelectSeq(log, IsShuntCall)) = 1
          /\ Len(inner) = 1
          /\ rv.kind = "pair"
          /\ rv.ok = inner[1].ok
          /\ rv.val = inner[1].val
          /\ rv.den = rsense
          /\ (~inner[1].ok => rv.val = 0)

\* C8 witness: 100 counts (0.001 V) across 75 ohms came back as 100/75
C8_Witness ==
    /\ Returned("measure_current")
    /\ rsense = 75
    /\ Len(ShuntReads) = 1
    /\ ShuntReads[1].val = 100
    /\ rv = [kind |-> "pair", ok |-> TRUE, val |-> 100, den |-> 75]

-----------------------------------------------------------------------------
(* C9: construction *)

\* C9: the constructor's bus transactions are, in this order, the write of
\* 0xB99F to register 0, a read of register 0, the write of the canonical
\* configuration (0x3C07 | samples << 3), a read of register 0 and one more
\* read of register 0; whatever is read back, the constructor never raises,
\* never stops half way and ends with all five transactions made.
C9_ConstructionOrder ==
    op = "__init__" =>
        LET b == Bus(log) IN
        /\ rv.kind # "raise"
        /\ Len(b) <= 5
        /\ (Len(b) >= 1 => b[1] = WriteEv(0, 47519))
        /\ (Len(b) >= 2 => b[2].kind = "read" /\ b[2].reg = 0)
        /\ (Len(b) >= 3 => b[3] = WriteEv(0, 15367 + 8 * SAMPLES))
        /\ (Len(b) >= 4 => b[4].kind = "read" /\ b[4].reg = 0)
        /\ (Len(b) >= 5 => b[5].kind = "read" /\ b[5].reg = 0)
        /\ (stack # <<>> => ~constructed /\ ENABLED Next)
        /\ (stack = <<>> => constructed /\ Len(b) = 5)

\* C9 witness: construction ended although the reset failed, the
\* configuration did not read back and the last read shows an unknown mode
C9_Witness ==
    /\ Finished("__init__")
    /\ constructed
    /\ Bus(log)[2].val # 14751
    /\ Bus(log)[4].val # config_register
    /\ ConfigExplain(Bus(log)[5].val) = "unknown mode"

-----------------------------------------------------------------------------
(* C10: the strobe pin *)

\* C10: the shunt-voltage register is read only with the pin high; the pin
\* goes high immediately before that single read and low immediately after
\* it; nothing else happens on the bus while the pin is high; the pin is low
\* when construction ends and whenever a public operation ends.  (Before the
\* constructor has driven it the pin may be at either level.)
C10_StrobeBracketsShuntRead ==
    /\ pin \in {0, 1}
    /\ \A i \in 1 .. Len(log) :
          /\ IsShuntRead(log[i]) =>
                /\ i > 1 /\ log[i - 1] = PinEv(1)
                /\ (i < Len(log) => log[i + 1] = PinEv(0))
                /\ (i = Len(log) => pin = 1)
          /\ log[i] = PinEv(1) =>
                /\ (i < Len(log) => IsShuntRead(log[i + 1]))
                /\ (i = Len(log) => pin = 1)
    /\ Len(ShuntReads) <= 1
    /\ (op # "none" /\ pin = 1) =>
          /\ stack # <<>>
          /\ log # <<>>
          /\ (log[Len(log)] = PinEv(1) \/ IsShuntRead(log[Len(log)]))
    /\ (op # "none" /\ stack = <<>>) => pin = 0

\* C10 witness: the shunt register has just been read and the pin is still high
C10_Witness ==
    /\ pin = 1
    /\ log # <<>>
    /\ IsShuntRead(log[Len(log)])
    /\ At("read_shunt_voltage", "pin_low")

-----------------------------------------------------------------------------
(* C11: read-back against the value written *)

\* C11: set_config(v) returns False whenever the value read back from the
\* configuration register differs from the value v it wrote.
C11_MismatchReportsFailure ==
    ( /\ Finished("set_config")
      /\ Len(Bus(log)) = 2
      /\ Bus(log)[2].val # cfg_val )
    => rv = BoolValue(FALSE)

-----------------------------------------------------------------------------
(* C12: the trigger write *)

MeasurementOps == {"read_bus_voltage", "read_shunt_voltage", "measure_current"}

IsWrite(e) == e.kind = "write"

\* C12: in read_bus_voltage, read_shunt_voltage and measure_current the first
\* bus transaction is the write of the canonical configuration
\* (0x3C07 | samples << 3) to register 0, so it precedes every read of the
\* bus-voltage register; it is the only write of the call, and a call that
\* has got as far as a poll or its end has made it.
C12_TriggerWritesCanonical ==
    op \in MeasurementOps =>
        LET b == Bus(log) IN
        /\ \A i \in 1 .. Len(b) :
              IsWrite(b[i]) <=> i = 1
        /\ (Len(b) >= 1 => b[1] = WriteEv(0, 15367 + 8 * SAMPLES))
        /\ (Len(b) >= 1 => b[1] = WriteEv(0, config_register))
        /\ (stack = <<>> => Len(b) >= 1)

\* C12 witness: a read_shunt_voltage call ended after the write, one poll and
\* the shunt read
C12_Witness ==
    /\ Returned("read_shunt_voltage")
    /\ Len(Bus(log)) = 3
    /\ Bus(log)[1] = WriteEv(0, config_register)
    /\ IsBusVoltageRead(Bus(log)[2])
    /\ IsShuntRead(Bus(log)[3])

-----------------------------------------------------------------------------
(* C15: the packing of the configuration *)

\* C15: for every selector s in 0..15 the canonical configuration is
\* 0x3C07 | (s << 3), fits in 16 bits and has mode 7 in bits 0-2, s in bits
\* 3-6, bus ADC field 0x0400 in bits 7-10, gain 0x1800 in bits 11-12 and bus
\* range 0x2000 in bit 13 (compared once, in the state before construction);
\* the constructed instance holds that value for its selector.
C15_ConfigPacking ==
    /\ Fresh =>
          \A s \in 0 .. 15 :
              LET c == ConfigRegister(s) IN
              /\ c = 15367 + 8 * s
              /\ c \in Word16
              /\ c % 8 = 7
              /\ (c \div 8) % 16 = s
              /\ ((c \div 128) % 16) * 128 = 1024
              /\ ((c \div 2048) % 4) * 2048 = 6144
              /\ ((c \div 8192) % 2) * 8192 = 8192
              /\ c \div 16384 = 0
    /\ ~Fresh =>
          /\ SAMPLES \in 0 .. 15
          /\ config_register = 15367 + 8 * SAMPLES

\* C15 witness: an instance built with selector 15 holds 0x3C7F
C15_Witness ==
    /\ constructed
    /\ SAMPLES = 15
    /\ config_register = 15487

-----------------------------------------------------------------------------
(* C16: the poll loop *)

IsSleep(e) == e.kind = "sleep"

\* C16: a call of read_bus_voltage or read_shunt_voltage (also through
\* measure_current) never polls the bus-voltage register or sleeps a second
\* time, and when it has ended, by a return or by the exception, it has
\* polled exactly once and slept exactly once, ready bit set or not.
C16_SinglePoll ==
    op \in MeasurementOps =>
        /\ Len(Polls) <= 1
        /\ Len(SelectSeq(log, IsSleep)) <= 1
        /\ count <= 1
        /\ (stack = <<>> =>
               /\ Len(Polls) = 1
               /\ Len(SelectSeq(log, IsSleep)) = 1)

\* C16 witness: a read_bus_voltage call whose only poll was not ready has ended
C16_Witness ==
    /\ Finished("read_bus_voltage")
    /\ Len(Polls) = 1
    /\ ~ReadyBitSet(Polls[1].val)
    /\ Len(SelectSeq(log, IsSleep)) = 1

-----------------------------------------------------------------------------
(* C13: repeated reads of the bus voltage *)

-----------------------------------------------------------------------------
(* C14: the identity of the instance *)

\* C14: once the constructor has set them, no step of any operation changes
\* the bus address, the shunt resistance, the display name, the sample-count
\* selector or the canonical configuration value.
C14_IdentityImmutable ==
    [][ op # "none" =>
          /\ INA220_ADDRESS' = INA220_ADDRESS
          /\ rsense' = rsense
          /\ name' = name
          /\ SAMPLES' = SAMPLES
          /\ config_register' = config_register ]_vars

\* C14 witness: set_config was called with a value other than the canonical
\* one, got it echoed, and the instance is as the constructor left it
C14_Witness ==
    /\ Finished("set_config")
    /\ cfg_val # config_register
    /\ Bus(log)[2].val = cfg_val
    /\ config_register = 15367 + 8 * SAMPLES
    /\ [addr |-> INA220_ADDRESS, name |-> name, rsense |-> rsense] \in Devices


------------------------------------------------------------------------------
(* C21: the shunt register is read after a ready poll only *)

IsRead(e) == e.kind = "read"

\* C21: when a call of read_shunt_voltage (also through measure_current) has
\* read the shunt-voltage register, the reads of the call are two: the one
\* poll of the bus-voltage register, which came first and returned a word
\* with bit 1 set, and the shunt read. A poll that saw the bit clear is never
\* followed by a shunt read.
C21_ShuntReadAfterReadyPoll ==
    (op \in {"read_shunt_voltage", "measure_current"} /\ Len(ShuntReads) >= 1)
    => /\ Len(SelectSeq(log, IsRead)) = 2
       /\ IsBusVoltageRead(SelectSeq(log, IsRead)[1])
       /\ ReadyBitSet(SelectSeq(log, IsRead)[1].val)
       /\ IsShuntRead(SelectSeq(log, IsRead)[2])

\* C21 witness: read_shunt_voltage has returned after a ready poll and one
\* read of the shunt register
C21_Witness ==
    /\ Returned("read_shunt_voltage")
    /\ Len(ShuntReads) = 1
    /\ Len(Polls) = 1
    /\ ReadyBitSet(Polls[1].val)

------------------------------------------------------------------------------
(* Teensy4 (public/prism/drivers/teensy4/Teensy4.py).                      *)
(*                                                                         *)
(* One instance, driven by a single caller. SimpleRPC is the environment:  *)
(* Interface(port) is created or raises, and call_method('version')        *)
(* answers a JSON object with a success flag and a version string. A       *)
(* method is a sequence of steps named by t_pc; it ends by handing t_ret   *)
(* to the caller, either a value or the exception that left the method.    *)

MaxTeensyCalls == 3

\* versions the firmware may report: the driver's own and another one
Versions == {my_version, "0.2.0"}

\* json.loads(answer) of a version query, reduced to the two entries read
Responses == [success : BOOLEAN, version : Versions]

TBool(b) == [kind |-> "bool", ok |-> b, version |-> "", exc |-> ""]

TDict(r) == [kind |-> "dict", ok |-> r.success, version |-> r.version, exc |-> ""]

TRaise(e) == [kind |-> "raise", ok |-> FALSE, version |-> "", exc |-> e]

\* str.format with automatically numbered fields raises IndexError when it
\* is given fewer positional arguments than the template has fields
FormatRaises(fields, args) == args < fields

TLogged(levels) == t_log' = t_log \o levels

TReturn(value) ==
    /\ t_ret' = value
    /\ t_pc' = "idle"

TEnter(method, pc) ==
    /\ t_pc = "idle"
    /\ t_calls < MaxTeensyCalls
    /\ t_calls' = t_calls + 1
    /\ t_op' = method
    /\ t_pc' = pc
    /\ t_ret' = TNone
    /\ t_response' = NoResponse
    /\ UNCHANGED <<nonTeensy, t_rpc, t_log>>

t_call_init ==
    /\ TRUE
    /\ TEnter("init", "init_interface")

t_call_close ==
    /\ TRUE
    /\ TEnter("close", "close")

t_call_version ==
    /\ TRUE
    /\ TEnter("version", "version")

\* lines 50-55: the info message, then Interface(self.port) in the try
t_init_interface ==
    /\ t_pc = "init_interface"
    /\ \E created \in BOOLEAN :
         IF FormatRaises(1, 1)
         THEN /\ TReturn(TRaise("IndexError"))
              /\ UNCHANGED <<t_rpc, t_log>>
         ELSE IF created
         THEN /\ t_rpc' = "open"
              /\ TLogged(<<"info">>)
              /\ t_pc' = "init_version"
              /\ UNCHANGED t_ret
         ELSE /\ TLogged(<<"info", "error">>)
              /\ TReturn(TBool(FALSE))
              /\ UNCHANGED t_rpc
    /\ UNCHANGED <<nonTeensy, t_op, t_response, t_calls>>

\* line 57: version_response = self.version()
t_init_version ==
    /\ t_pc = "init_version"
    /\ \E r \in Responses : t_response' = r
    /\ t_pc' = "init_success"
    /\ UNCHANGED <<nonTeensy, t_rpc, t_op, t_ret, t_log, t_calls>>

\* lines 58-60
t_init_success ==
    /\ t_pc = "init_success"
    /\ IF ~t_response.success
       THEN /\ TLogged(<<"error">>)
            /\ TReturn(TBool(FALSE))
       ELSE /\ t_pc' = "init_match"
            /\ UNCHANGED <<t_ret, t_log>>
    /\ UNCHANGED <<nonTeensy, t_rpc, t_op, t_response, t_calls>>

\* lines 62-68: the mismatch message is built by a template of two fields
\* formatted with the single argument `...`, before logger.error is called
t_init_match ==
    /\ t_pc = "init_match"
    /\ IF my_version # t_response.version
       THEN IF FormatRaises(2, 1)
            THEN /\ TReturn(TRaise("IndexError"))
                 /\ UNCHANGED t_log
            ELSE /\ TLogged(<<"error">>)
                 /\ TReturn(TBool(FALSE))
       ELSE IF FormatRaises(1, 1)
            THEN /\ TReturn(TRaise("IndexError"))
                 /\ UNCHANGED t_log
            ELSE /\ TLogged(<<"info">>)
                 /\ TReturn(TBool(TRUE))
    /\ UNCHANGED <<nonTeensy, t_rpc, t_op, t_response, t_calls>>

\* lines 75-77: self.rpc is None until init has created the interface
t_close ==
    /\ t_pc = "close"
    /\ TLogged(<<"info">>)
    /\ IF t_rpc = "None"
       THEN /\ TReturn(TRaise("AttributeError"))
            /\ UNCHANGED t_rpc
       ELSE /\ t_rpc' = "closed"
            /\ TReturn(TBool(TRUE))
    /\ UNCHANGED <<nonTeensy, t_op, t_response, t_calls>>

\* lines 115-116
t_version ==
    /\ t_pc = "version"
    /\ IF t_rpc = "None"
       THEN TReturn(TRaise("AttributeError"))
       ELSE \E r \in Responses : TReturn(TDict(r))
    /\ UNCHANGED <<nonTeensy, t_rpc, t_op, t_response, t_log, t_calls>>

InitTeensy == InaParked /\ TeensyInit /\ PybInit /\ ItemInit /\ SupplyParked

NextTeensy ==
    \/ t_call_init
    \/ t_call_close
    \/ t_call_version
    \/ t_init_interface
    \/ t_init_version
    \/ t_init_success
    \/ t_init_match
    \/ t_close
    \/ t_version

SpecTeensy == InitTeensy /\ [][NextTeensy]_vars

TInitFinished == t_op = "init" /\ t_pc = "idle"

\* C17: whenever init() has finished it has returned a boolean, and that
\* boolean is True exactly when the interface was created, the version query
\* reported success and the reported version equals my_version; in particular
\* a differing version gives False and no exception.
C17_InitReturnsBoolean ==
    TInitFinished =>
        /\ t_ret.kind = "bool"
        /\ t_ret.ok <=> /\ t_response # NoResponse
                        /\ t_response.success
                        /\ t_response.version = my_version

------------------------------------------------------------------------------
(* pyboard2 (public/prism/drivers/micropythonbrd/upybrd.py).               *)
(*                                                                         *)
(* One instance shared by the threads of Threads. A thread calls           *)
(* server_cmd directly, or through start_server; thread Verifier also      *)
(* calls _verify_single_cmd_ret, alone. server_cmd is a sequence of steps named   *)
(* by s_pc, so that the steps of two threads interleave freely. The board  *)
(* is the environment: enter_raw_repl and exec_raw succeed or raise, and a *)
(* blocking exec_raw yields the bytes ret and ret_err.                     *)

MaxPybCalls == 1

MaxResults == 2

RETRIES == 5

Verifier == 1

RequestedMethod == "led_toggle"

OtherMethod == "adc_read"

Entries == [method : {RequestedMethod, OtherMethod}, success : BOOLEAN]

\* the lists the server may print for a ret query
Lists == UNION {[1..n -> Entries] : n \in 0..MaxResults}

\* the content of a reply is read by _verify_single_cmd_ret only; the other
\* callers are given an empty and a one-entry reply
ReplyLists(t) ==
    IF p_api[t] = "verify"
    THEN Lists
    ELSE {<<>>, <<[method |-> RequestedMethod, success |-> TRUE]>>}

\* ret, ret_err as exec_raw may return them: printed output, no output, or
\* a remote traceback
Outs(t) ==
    {[has_ret |-> TRUE, items |-> l, ret_err |-> FALSE] : l \in ReplyLists(t)}
        \cup {NoOut, [has_ret |-> FALSE, items |-> <<>>, ret_err |-> TRUE]}

\* line 134
Matches(r, method) == r.method = method /\ r.success = TRUE

HasMatch(items, method) == \E i \in 1..Len(items) : Matches(items[i], method)

\* a call of server_cmd by thread t
SCall(t, args) ==
    /\ s_pc' = [s_pc EXCEPT ![t] = "check"]
    /\ s_args' = [s_args EXCEPT ![t] = args]
    /\ s_out' = [s_out EXCEPT ![t] = NoOut]
    /\ s_ret' = [s_ret EXCEPT ![t] = NoSResult]

\* server_cmd returns: its arguments and locals are gone
SReturn(t, value) ==
    /\ s_ret' = [s_ret EXCEPT ![t] =
                    [value EXCEPT !.args = s_args[t],
                                  !.entered = (s_args[t].repl_enter
                                               /\ s_pc[t] \in {"exec", "exit",
                                                                "result"}),
                                  !.raw = p_raw]]
    /\ s_pc' = [s_pc EXCEPT ![t] = "done"]
    /\ s_args' = [s_args EXCEPT ![t] = NoArgs]
    /\ s_out' = [s_out EXCEPT ![t] = NoOut]

\* the caller has taken the value server_cmd returned
STaken(t) ==
    /\ s_pc' = [s_pc EXCEPT ![t] = "idle"]
    /\ s_ret' = [s_ret EXCEPT ![t] = NoSResult]

\* line 68: leaving the with block, by return or otherwise, releases the lock
WithExit(t) == p_lock' = 0

ExceptReturn_holding(t, msg) ==
    /\ SReturn(t, SResult(FALSE, <<>>, msg))
    /\ UNCHANGED p_lock

\* lines 80-85: the except clauses return from inside the with block
ExceptReturn(t, msg) ==
    /\ SReturn(t, SResult(FALSE, <<>>, msg))
    /\ WithExit(t)

\* lines 61-66
sc_check(t) ==
    /\ s_pc[t] = "check"
    /\ IF ~s_args[t].is_list
       THEN SReturn(t, SResult(FALSE, <<>>, "cmds should be a list"))
       ELSE /\ s_pc' = [s_pc EXCEPT ![t] = "lock"]
            /\ UNCHANGED <<s_args, s_out, s_ret>>
    /\ UNCHANGED <<nonPyb, p_lock, p_raw, p_api, p_calls, p_ret, verifyVars>>

\* line 68: with self.lock blocks until the lock is free
sc_acquire(t) ==
    /\ s_pc[t] = "lock"
    /\ p_lock = 0
    /\ p_lock' = t
    /\ s_pc' = [s_pc EXCEPT ![t] = "enter"]
    /\ UNCHANGED <<nonPyb, p_raw, p_api, p_calls, p_ret, s_args, s_out, s_ret,
                   verifyVars>>

\* line 71, and lines 80-85 when enter_raw_repl raises
sc_enter(t) ==
    /\ s_pc[t] = "enter"
    /\ IF s_args[t].repl_enter
       THEN \E o \in {"ok", "PyboardError", "KeyboardInterrupt"} :
              IF o = "ok"
              THEN /\ p_raw' = TRUE
                   /\ s_pc' = [s_pc EXCEPT ![t] = "exec"]
                   /\ UNCHANGED <<p_lock, s_args, s_out, s_ret>>
              ELSE /\ ExceptReturn(t, o)
                   /\ UNCHANGED p_raw
       ELSE /\ s_pc' = [s_pc EXCEPT ![t] = "exec"]
            /\ UNCHANGED <<p_lock, p_raw, s_args, s_out, s_ret>>
    /\ UNCHANGED <<nonPyb, p_api, p_calls, p_ret, verifyVars>>

\* lines 73-78, and lines 80-85 when the exchange raises
sc_exec(t) ==
    /\ s_pc[t] = "exec"
    /\ IF s_args[t].blocking
       THEN \E o \in {"ok", "PyboardError", "KeyboardInterrupt"} :
              IF o = "ok"
              THEN /\ \E out \in Outs(t) : s_out' = [s_out EXCEPT ![t] = out]
                   /\ s_pc' = [s_pc EXCEPT ![t] = "exit"]
                   /\ UNCHANGED <<p_lock, s_args, s_ret>>
              ELSE ExceptReturn(t, o)
       ELSE \E o \in {"ok", "PyboardError", "KeyboardInterrupt"} :
              IF o = "ok"
              THEN /\ s_out' = [s_out EXCEPT ![t] = NoOut]
                   /\ s_pc' = [s_pc EXCEPT ![t] = "exit"]
                   /\ UNCHANGED <<p_lock, s_args, s_ret>>
              ELSE ExceptReturn(t, o)
    /\ UNCHANGED <<nonPyb, p_raw, p_api, p_calls, p_ret, verifyVars>>

\* line 87
sc_exit(t) ==
    /\ s_pc[t] = "exit"
    /\ p_raw' = IF s_args[t].repl_exit THEN FALSE ELSE p_raw
    /\ s_pc' = [s_pc EXCEPT ![t] = "result"]
    /\ UNCHANGED <<nonPyb, p_lock, p_api, p_calls, p_ret, s_args, s_out, s_ret,
                   verifyVars>>

\* lines 89-103
sc_result(t) ==
    /\ s_pc[t] = "result"
    /\ IF s_out[t].ret_err
       THEN SReturn(t, SResult(FALSE, <<>>, "ret_err"))
       ELSE IF s_out[t].has_ret
       THEN SReturn(t, SResult(TRUE, s_out[t].items, ""))
       ELSE SReturn(t, SResult(TRUE, <<>>, ""))
    /\ WithExit(t)
    /\ UNCHANGED <<nonPyb, p_raw, p_api, p_calls, p_ret, verifyVars>>

\* an API method is entered by an idle thread. _verify_single_cmd_ret
\* shares nothing with the other threads but what its server_cmd calls share,
\* and those calls are the direct calls with VerifyArgs: it is run while the
\* other threads are idle, which keeps its polls from multiplying with the
\* interleavings of server_cmd
PEnter(t, api) ==
    /\ p_api[t] = "none"
    /\ v_pc \in {"idle", "returned"}
    /\ api = "verify" => \A u \in Threads : p_api[u] = "none"
    /\ p_calls[t] < MaxPybCalls
    /\ p_api' = [p_api EXCEPT ![t] = api]
    /\ p_calls' = [p_calls EXCEPT ![t] = @ + 1]
    /\ p_ret' = [p_ret EXCEPT ![t] = NoPResult]

\* the locals of a finished _verify_single_cmd_ret are kept, for the record
\* of what it did, until the next API call is made
VerifyForgotten ==
    /\ v_pc' = "idle"
    /\ v_cmd' = NoCmd
    /\ v_retry' = 0
    /\ v_succeeded' = FALSE
    /\ v_success' = FALSE
    /\ v_result' = NoSResult
    /\ v_sends' = 0
    /\ v_polls' = 0
    /\ v_stale' = FALSE

PReturn(t, value) ==
    /\ p_ret' = [p_ret EXCEPT ![t] = value]
    /\ p_api' = [p_api EXCEPT ![t] = "none"]

\* line 53: a direct call, with any arguments
p_call_server_cmd(t) ==
    /\ PEnter(t, "server_cmd")
    /\ \E a \in [is_list : BOOLEAN, repl_enter : BOOLEAN, repl_exit : BOOLEAN,
                  blocking : BOOLEAN] : SCall(t, a)
    /\ VerifyForgotten
    /\ UNCHANGED <<nonPyb, p_lock, p_raw>>

p_return_server_cmd(t) ==
    /\ p_api[t] = "server_cmd"
    /\ s_pc[t] = "done"
    /\ PReturn(t, PResult("server_cmd", s_ret[t].ok, s_ret[t].msg, NoEntry))
    /\ STaken(t)
    /\ UNCHANGED <<nonPyb, p_lock, p_raw, p_calls, s_args, s_out, verifyVars>>

\* lines 158-159
p_call_start_server(t) ==
    /\ PEnter(t, "start_server")
    /\ SCall(t, [is_list |-> TRUE, repl_enter |-> TRUE, repl_exit |-> FALSE,
                 blocking |-> TRUE])
    /\ VerifyForgotten
    /\ UNCHANGED <<nonPyb, p_lock, p_raw>>

\* lines 160-161
p_return_start_server(t) ==
    /\ p_api[t] = "start_server"
    /\ s_pc[t] = "done"
    /\ PReturn(t, PResult("start_server", s_ret[t].ok, "", NoEntry))
    /\ STaken(t)
    /\ UNCHANGED <<nonPyb, p_lock, p_raw, p_calls, s_args, s_out, verifyVars>>

\* the arguments _verify_single_cmd_ret gives server_cmd (lines 118, 130)
VerifyArgs == [is_list |-> TRUE, repl_enter |-> FALSE, repl_exit |-> FALSE,
               blocking |-> TRUE]

VReturn(ok, msg, entry) ==
    /\ PReturn(Verifier, PResult("verify", ok, msg, entry))
    /\ v_pc' = "returned"

\* line 105
v_call ==
    /\ PEnter(Verifier, "verify")
    /\ \E c \in [has_method : BOOLEAN, has_args : BOOLEAN] : v_cmd' = c
    /\ v_pc' = "args"
    /\ v_retry' = 0
    /\ v_succeeded' = FALSE
    /\ v_success' = FALSE
    /\ v_result' = NoSResult
    /\ v_sends' = 0
    /\ v_polls' = 0
    /\ v_stale' = FALSE
    /\ UNCHANGED <<nonPyb, p_lock, p_raw, s_pc, s_args, s_out, s_ret>>

\* lines 106-118
v_args ==
    /\ v_pc = "args"
    /\ IF ~v_cmd.has_method
       THEN /\ VReturn(FALSE, "method not specified", NoEntry)
            /\ UNCHANGED <<s_pc, s_args, s_out, s_ret, v_sends>>
       ELSE IF ~v_cmd.has_args
       THEN /\ VReturn(FALSE, "args not specified", NoEntry)
            /\ UNCHANGED <<s_pc, s_args, s_out, s_ret, v_sends>>
       ELSE /\ SCall(Verifier, VerifyArgs)
            /\ v_sends' = v_sends + 1
            /\ v_pc' = "sent"
            /\ UNCHANGED <<p_api, p_ret>>
    /\ UNCHANGED <<nonPyb, p_lock, p_raw, p_calls, v_cmd, v_retry, v_succeeded,
                   v_success, v_result, v_polls, v_stale>>

\* lines 118-127: the send has returned
v_sent ==
    /\ v_pc = "sent"
    /\ s_pc[Verifier] = "done"
    /\ v_success' = s_ret[Verifier].ok
    /\ v_result' = s_ret[Verifier]
    /\ STaken(Verifier)
    /\ IF ~s_ret[Verifier].ok
       THEN /\ VReturn(s_ret[Verifier].ok, s_ret[Verifier].msg, NoEntry)
            /\ UNCHANGED <<v_retry, v_succeeded>>
       ELSE /\ v_retry' = RETRIES
            /\ v_succeeded' = FALSE
            /\ v_pc' = "loop"
            /\ UNCHANGED <<p_api, p_ret>>
    /\ UNCHANGED <<nonPyb, p_lock, p_raw, p_calls, s_args, s_out, v_cmd,
                   v_sends, v_polls, v_stale>>

\* lines 128-130: the loop test, and the poll when it passes
v_loop ==
    /\ v_pc = "loop"
    /\ IF v_retry # 0 /\ ~v_succeeded
       THEN /\ SCall(Verifier, VerifyArgs)
            /\ v_polls' = v_polls + 1
            /\ v_stale' = (v_stale \/ (v_polls > 0 /\ v_success
                                        /\ HasMatch(v_result.items,
                                                    RequestedMethod)))
            /\ v_pc' = "polled"
       ELSE /\ v_pc' = "after"
            /\ UNCHANGED <<s_pc, s_args, s_out, s_ret, v_polls, v_stale>>
    /\ UNCHANGED <<nonPyb, p_lock, p_raw, p_api, p_calls, p_ret, v_cmd, v_retry,
                   v_succeeded, v_success, v_result, v_sends>>

\* lines 130-139: the poll has returned
v_polled ==
    /\ v_pc = "polled"
    /\ s_pc[Verifier] = "done"
    /\ v_success' = s_ret[Verifier].ok
    /\ v_result' = s_ret[Verifier]
    /\ STaken(Verifier)
    /\ IF s_ret[Verifier].ok
       THEN /\ v_succeeded' = (v_succeeded
                                 \/ HasMatch(s_ret[Verifier].items,
                                             RequestedMethod))
            /\ v_retry' = v_retry - 1
            /\ v_pc' = "loop"
            /\ UNCHANGED <<p_api, p_ret>>
       ELSE /\ VReturn(s_ret[Verifier].ok, s_ret[Verifier].msg, NoEntry)
            /\ UNCHANGED <<v_retry, v_succeeded>>
    /\ UNCHANGED <<nonPyb, p_lock, p_raw, p_calls, s_args, s_out, v_cmd,
                   v_sends, v_polls, v_stale>>

v_after_any_length ==
    /\ v_pc = "after"
    /\ IF ~v_succeeded
       THEN VReturn(FALSE, "Failed to verify method", NoEntry)
       ELSE IF ~v_result.items[1].success
       THEN VReturn(FALSE, "", v_result.items[1])
       ELSE VReturn(v_success, "", v_result.items[1])
    /\ UNCHANGED <<nonPyb, p_lock, p_raw, p_calls, s_pc, s_args, s_out, s_ret,
                   v_cmd, v_retry, v_succeeded, v_success, v_result, v_sends,
                   v_polls, v_stale>>

\* lines 141-151
v_after ==
    /\ v_pc = "after"
    /\ IF ~v_succeeded
       THEN VReturn(FALSE, "Failed to verify method", NoEntry)
       ELSE IF Len(v_result.items) > 1
       THEN VReturn(FALSE, "More results than expected, internal error",
                    NoEntry)
       ELSE IF ~v_result.items[1].success
       THEN VReturn(FALSE, "", v_result.items[1])
       ELSE VReturn(v_success, "", v_result.items[1])
    /\ UNCHANGED <<nonPyb, p_lock, p_raw, p_calls, s_pc, s_args, s_out, s_ret,
                   v_cmd, v_retry, v_succeeded, v_success, v_result, v_sends,
                   v_polls, v_stale>>

InitPyb == InaParked /\ TeensyInit /\ PybInit /\ ItemInit /\ SupplyParked

NextPyb ==
    \/ \E t \in Threads : p_call_server_cmd(t)
    \/ \E t \in Threads : p_return_server_cmd(t)
    \/ \E t \in Threads : p_call_start_server(t)
    \/ \E t \in Threads : p_return_start_server(t)
    \/ \E t \in Threads : sc_check(t)
    \/ \E t \in Threads : sc_acquire(t)
    \/ \E t \in Threads : sc_enter(t)
    \/ \E t \in Threads : sc_exec(t)
    \/ \E t \in Threads : sc_exit(t)
    \/ \E t \in Threads : sc_result(t)
    \/ v_call
    \/ v_args
    \/ v_sent
    \/ v_loop
    \/ v_polled
    \/ v_after

SpecPyb == InitPyb /\ [][NextPyb]_vars

VFinished == v_pc = "returned"

InVerify == v_pc # "idle"

\* cmd_dict lacks 'method' or 'args'
VIncomplete == ~v_cmd.has_method \/ ~v_cmd.has_args

\* C18: _verify_single_cmd_ret sends nothing and returns (False, message)
\* when cmd_dict lacks 'method' or 'args'; otherwise it sends once and polls
\* at most 5 times, never again after a poll whose result held an entry with
\* the requested method and success == True; a failed send or poll is
\* returned at once, 5 polls without such an entry return (False, "Failed to
\* verify method ..."), and a returned success = True means the final poll
\* held exactly one entry, the one returned, with the requested method and
\* success == True.
C18_VerifySingleCmdRet ==
    InVerify =>
        /\ v_sends <= 1
        /\ v_polls <= 5
        /\ ~v_stale
        /\ v_polls > 0 => v_sends = 1
        /\ VIncomplete => v_sends = 0 /\ v_polls = 0
        /\ VFinished /\ VIncomplete =>
              /\ ~p_ret[Verifier].ok
              /\ p_ret[Verifier].msg = IF ~v_cmd.has_method
                                       THEN "method not specified"
                                       ELSE "args not specified"
        /\ VFinished /\ ~VIncomplete =>
              /\ v_sends = 1
              /\ ~v_success =>
                    /\ ~p_ret[Verifier].ok
                    /\ p_ret[Verifier].msg = v_result.msg
              /\ v_success => v_polls >= 1
              /\ v_success /\ ~HasMatch(v_result.items, RequestedMethod) =>
                    /\ v_polls = 5
                    /\ ~p_ret[Verifier].ok
                    /\ p_ret[Verifier].msg = "Failed to verify method"
              /\ p_ret[Verifier].ok =>
                    /\ v_success
                    /\ Len(v_result.items) = 1
                    /\ p_ret[Verifier].entry = v_result.items[1]
                    /\ Matches(v_result.items[1], RequestedMethod)

\* a call that returned success = True at its third poll
C18_Witness ==
    /\ VFinished
    /\ p_ret[Verifier].ok
    /\ v_polls = 3

\* thread t is inside the with block of server_cmd (lines 68-103), between
\* enter_raw_repl and the end of its exchange
InBlock(t) == s_pc[t] \in {"enter", "exec", "exit", "result"}

\* C20: at most one thread is inside the with block of server_cmd, the lock
\* is held exactly while a thread is inside it, so it is free again after
\* every return (normal, PyboardError, KeyboardInterrupt, remote error, JSON
\* result), and the thread holding it always has a step to take, so a
\* waiting call is not blocked for good.
C20_LockSerializes ==
    /\ \A t, u \in Threads : t # u => ~(InBlock(t) /\ InBlock(u))
    /\ \A t \in Threads : InBlock(t) <=> p_lock = t
    /\ p_lock \in Threads \cup {0}
    /\ \A t \in Threads :
         p_lock = t => ENABLED (sc_enter(t) \/ sc_exec(t) \/ sc_exit(t)
                                  \/ sc_result(t))

\* one thread has come back from server_cmd with a PyboardError while the
\* other, which called later or waited, is inside the with block
C20_Witness ==
    \E t, u \in Threads :
        /\ s_pc[t] = "done"
        /\ s_ret[t].msg = "PyboardError"
        /\ InBlock(u)

------------------------------------------------------------------------------
(* pybrd00xx (public/prism/scripts/example/pybrd_v1/pybrd00xx.py).         *)
(*                                                                         *)
(* The test items of one channel, run one at a time. The framework and the *)
(* driver are the environment: get_drivers returns a list of some length,  *)
(* the driver found has a port or None, led_toggle, adc_read and           *)
(* input_button succeed or fail, and a measurement passes or fails.        *)
(* i_events records, for the item in progress, the calls it makes.         *)

MaxItemRuns == 4

MaxDrivers == 2

Items == {"PYBRD0xxSETUP", "PYBRD0xxTRDN", "PYBRD0010_LedToggle",
          "PYBRD0020_adc_read"}

\* what ctx.record.measurement hands back as _result
MeasurementResults == {"PASS", "FAIL"}

IDid(made) == i_events' = i_events \o made

\* item_end(result), then return (or the end of the method)
ItemEnd(made, result) ==
    /\ IDid(made \o <<"item_end">>)
    /\ i_result' = result
    /\ i_pc' = "idle"
    /\ UNCHANGED i_raised

\* an exception leaves the item
ItemRaise(made, e) ==
    /\ IDid(made)
    /\ i_raised' = e
    /\ i_pc' = "idle"
    /\ UNCHANGED i_result

\* lines 28, 57, 72, 117: the script runs SETUP first, and the other items
\* once a SETUP has stored the driver object
item_begin ==
    /\ i_pc = "idle"
    /\ i_runs < MaxItemRuns
    /\ \E item \in Items :
         /\ item # "PYBRD0xxSETUP" => i_pyb # "None"
         /\ i_item' = item
         /\ i_pc' = item
    /\ i_runs' = i_runs + 1
    /\ i_events' = <<"item_start">>
    /\ i_result' = "none"
    /\ i_raised' = ""
    /\ UNCHANGED <<nonItem, i_pyb, i_port>>

\* lines 31-37
setup_drivers ==
    /\ i_pc = "PYBRD0xxSETUP"
    /\ \E n \in 0..MaxDrivers :
         IF n > 1
         THEN ItemEnd(<<"get_drivers", "log_bullet">>, "INTERNAL_ERROR")
         ELSE IF n = 0
         THEN ItemRaise(<<"get_drivers">>, "IndexError")
         ELSE /\ IDid(<<"get_drivers">>)
              /\ i_pc' = "setup_port"
              /\ UNCHANGED <<i_result, i_raised>>
    /\ UNCHANGED <<nonItem, i_pyb, i_port, i_item, i_runs>>

\* lines 39-54
setup_port ==
    /\ i_pc = "setup_port"
    /\ \E port \in {"None", "ttyACM0", "ttyACM1"} :
         /\ i_port' = port
         /\ IF port = "None"
            THEN /\ ItemEnd(<<>>, "FAIL")
                 /\ UNCHANGED i_pyb
            ELSE /\ ItemEnd(<<"measurement", "log_bullet">>, "PASS")
                 /\ i_pyb' = "pyb"
    /\ UNCHANGED <<nonItem, i_item, i_runs>>

\* lines 58-59
trdn_close ==
    /\ i_pc = "PYBRD0xxTRDN"
    /\ IF i_pyb = "None"
       THEN ItemRaise(<<>>, "AttributeError")
       ELSE ItemEnd(<<"close">>, "PASS")
    /\ UNCHANGED <<nonItem, i_pyb, i_port, i_item, i_runs>>

\* lines 75-88
led_toggle_on ==
    /\ i_pc = "PYBRD0010_LedToggle"
    /\ \E success \in BOOLEAN :
         IF i_pyb = "None"
         THEN ItemRaise(<<"log_bullet">>, "AttributeError")
         ELSE IF ~success
         THEN ItemEnd(<<"log_bullet", "led_toggle", "log_bullet">>, "FAIL")
         ELSE /\ IDid(<<"log_bullet", "led_toggle">>)
              /\ i_pc' = "led_input"
              /\ UNCHANGED <<i_result, i_raised>>
    /\ UNCHANGED <<nonItem, i_pyb, i_port, i_item, i_runs>>

\* lines 90-105
led_input ==
    /\ i_pc = "led_input"
    /\ \E selected \in BOOLEAN, measured \in MeasurementResults :
         IF selected
         THEN ItemEnd(<<"input_button", "log_bullet", "measurement",
                        "log_bullet", "led_toggle">>, measured)
         ELSE ItemEnd(<<"input_button", "log_bullet", "led_toggle">>, "FAIL")
    /\ UNCHANGED <<nonItem, i_pyb, i_port, i_item, i_runs>>

\* lines 119-141
adc_read ==
    /\ i_pc = "PYBRD0020_adc_read"
    /\ \E success \in BOOLEAN, measured \in MeasurementResults :
         IF i_pyb = "None"
         THEN ItemRaise(<<>>, "AttributeError")
         ELSE IF ~success
         THEN ItemEnd(<<"adc_read", "log_bullet">>, "FAIL")
         ELSE ItemEnd(<<"adc_read", "log_bullet", "measurement",
                        "log_bullet">>, measured)
    /\ UNCHANGED <<nonItem, i_pyb, i_port, i_item, i_runs>>

InitItem == InaParked /\ TeensyInit /\ PybInit /\ ItemInit /\ SupplyParked

NextItem ==
    \/ item_begin
    \/ setup_drivers
    \/ setup_port
    \/ trdn_close
    \/ led_toggle_on
    \/ led_input
    \/ adc_read

SpecItem == InitItem /\ [][NextItem]_vars

ItemOver == i_item # "none" /\ i_pc = "idle"

Count(made, c) == Len(SelectSeq(made, LAMBDA e : e = c))

\* C19: when a test item is over, on whatever path, the first call it made
\* is item_start, the last is item_end, and it made each exactly once.
C19_StartFirstEndLast ==
    ItemOver =>
        /\ i_events[1] = "item_start"
        /\ i_events[Len(i_events)] = "item_end"
        /\ Count(i_events, "item_start") = 1
        /\ Count(i_events, "item_end") = 1


------------------------------------------------------------------------------
(* C23: the raw REPL is left when server_cmd returns *)

\* C23: when a server_cmd call made with repl_enter = True and repl_exit =
\* True that performed enter_raw_repl has returned, on whatever path, the
\* board was outside the raw REPL at its return.
C23_RawReplLeft ==
    \A t \in Threads :
        ( /\ s_pc[t] = "done"
          /\ s_ret[t].args.repl_enter
          /\ s_ret[t].args.repl_exit
          /\ s_ret[t].entered )
        => ~s_ret[t].raw


------------------------------------------------------------------------------
(* SupplyStats (public/prism/drivers/micropythonbrd/upyb_supplies.py):     *)
(* __init__, _GPIO_write, _GPIO_read, _set_ina_channel and bypass.         *)
(*                                                                         *)
(* The GPIO expander is a pair of byte registers: a write to a command     *)
(* stores the byte, a read returns the byte stored. The two INA220         *)
(* instances __init__ builds talk to other bus addresses and leave the     *)
(* expander alone. g_log records the register accesses of the method in    *)
(* progress.                                                               *)

MaxSupplyCalls == 3

GPIO_COMMAND_OUTPUT == 1
GPIO_COMMAND_CONFIG == 3

V1_RELAY_SHIFT == 0
V2_RELAY_SHIFT == 2
V3_RELAY_SHIFT == 4

GPIO_CONFIG_ALL_INPUT == 63
GPIO_LATCH_SET_MASK == 2
GPIO_LATCH_RESET_MASK == 1
GPIO_LATCH_CLEAR_MASK == 3

CHANNELS == <<"V1", "V2", "V3">>

\* the channel arguments tried: the three of CHANNELS and an unknown one
ChannelArgs == {"V1", "V2", "V3", "V4"}

\* a & ~m on non-negative integers: the bits of a that are not bits of m
AndNot(a, m) == a - BitAnd(a, m)

\* lines 95-105: the shift the branch of a known channel uses
RelayShift(channel) ==
    IF channel = CHANNELS[1] THEN V1_RELAY_SHIFT
    ELSE IF channel = CHANNELS[2] THEN V2_RELAY_SHIFT
    ELSE V3_RELAY_SHIFT

\* lines 96-111: set_channel after set_channel |= _reg_cache
SetChannel(reg_cache, shift) ==
    BitOr(Shl(GPIO_LATCH_SET_MASK, shift),
          AndNot(reg_cache, Shl(GPIO_LATCH_CLEAR_MASK, shift)))

\* lines 128-133: the reset pattern of the three latches with bits 6-7 kept
ResetLatches(config_reg_cache) ==
    BitOr(BitOr(BitOr(Shl(GPIO_LATCH_RESET_MASK, V1_RELAY_SHIFT),
                      Shl(GPIO_LATCH_RESET_MASK, V2_RELAY_SHIFT)),
                Shl(GPIO_LATCH_RESET_MASK, V3_RELAY_SHIFT)),
          BitAnd(config_reg_cache, P67_MASK))

\* mutant of AllInput: bits 6-7 of the value read are not carried over
AllInput_without_p67(reg_cache) == GPIO_CONFIG_ALL_INPUT

\* lines 116-117 and 132, 140: config_register_p67 | GPIO_CONFIG_ALL_INPUT
AllInput(reg_cache) ==
    BitOr(BitAnd(reg_cache, P67_MASK), GPIO_CONFIG_ALL_INPUT)

GEv(kind, reg, val) == [kind |-> kind, reg |-> reg, val |-> val]

\* _GPIO_write (lines 77-81): command and value are sent as bytes
GPIOWrite(command, value) ==
    /\ g_log' = Append(g_log, GEv("write", BitAnd(command, BYTE_MASK),
                                  BitAnd(value, BYTE_MASK)))
    /\ IF BitAnd(command, BYTE_MASK) = GPIO_COMMAND_CONFIG
       THEN /\ g_config' = BitAnd(value, BYTE_MASK)
            /\ UNCHANGED g_output
       ELSE /\ g_output' = BitAnd(value, BYTE_MASK)
            /\ UNCHANGED g_config

\* _GPIO_read (lines 84-90) of the configuration register
GPIOReadConfig ==
    /\ g_cache' = g_config
    /\ g_log' = Append(g_log, GEv("read", GPIO_COMMAND_CONFIG, g_config))
    /\ UNCHANGED <<g_config, g_output>>

GEnter(method, pc) ==
    /\ g_pc = "idle"
    /\ g_calls < MaxSupplyCalls
    /\ g_calls' = g_calls + 1
    /\ g_op' = method
    /\ g_pc' = pc
    /\ g_log' = <<>>
    /\ g_ret' = "none"
    /\ g_cache' = 0
    /\ UNCHANGED <<nonSupply, g_config, g_output, g_built, g_p67>>

\* line 66
supply_call_init ==
    /\ ~g_built
    /\ g_channel' = ""
    /\ GEnter("__init__", "init_output")

\* line 92
supply_call_set_ina_channel ==
    /\ g_built
    /\ \E channel \in ChannelArgs : g_channel' = channel
    /\ GEnter("_set_ina_channel", "channel_read")

\* line 122
supply_call_bypass ==
    /\ g_built
    /\ g_channel' = ""
    /\ GEnter("bypass", "bypass_read")

\* lines 68-75: the INA220 instances, the output register, then bypass()
supply_init_output ==
    /\ g_pc = "init_output"
    /\ GPIOWrite(GPIO_COMMAND_OUTPUT, 0)
    /\ g_pc' = "bypass_read"
    /\ UNCHANGED <<nonSupply, g_built, g_op, g_channel, g_cache, g_ret, g_calls,
                   g_p67>>

\* line 94
set_ina_channel_read ==
    /\ g_pc = "channel_read"
    /\ GPIOReadConfig
    /\ g_pc' = "channel_set"
    /\ UNCHANGED <<nonSupply, g_built, g_op, g_channel, g_ret, g_calls, g_p67>>

\* lines 95-114
set_ina_channel_set ==
    /\ g_pc = "channel_set"
    /\ IF \E i \in 1..Len(CHANNELS) : g_channel = CHANNELS[i]
       THEN /\ GPIOWrite(GPIO_COMMAND_CONFIG,
                         SetChannel(g_cache, RelayShift(g_channel)))
            /\ g_pc' = "channel_reset"
            /\ UNCHANGED g_ret
       ELSE /\ g_ret' = "False"
            /\ g_pc' = "idle"
            /\ UNCHANGED <<g_config, g_output, g_log>>
    /\ UNCHANGED <<nonSupply, g_built, g_op, g_channel, g_cache, g_calls, g_p67>>

\* lines 114-120
set_ina_channel_reset ==
    /\ g_pc = "channel_reset"
    /\ GPIOWrite(GPIO_COMMAND_CONFIG, AllInput(g_cache))
    /\ g_ret' = "True"
    /\ g_pc' = "idle"
    /\ UNCHANGED <<nonSupply, g_built, g_op, g_channel, g_cache, g_calls, g_p67>>

\* line 127
bypass_read ==
    /\ g_pc = "bypass_read"
    /\ GPIOReadConfig
    /\ g_pc' = "bypass_latch"
    /\ UNCHANGED <<nonSupply, g_built, g_op, g_channel, g_ret, g_calls, g_p67>>

\* lines 128-137
bypass_latch ==
    /\ g_pc = "bypass_latch"
    /\ GPIOWrite(GPIO_COMMAND_CONFIG, ResetLatches(g_cache))
    /\ g_pc' = "bypass_input"
    /\ UNCHANGED <<nonSupply, g_built, g_op, g_channel, g_cache, g_ret, g_calls,
                   g_p67>>

\* lines 140-143; bypass() called by __init__ (line 75) ends __init__
bypass_input ==
    /\ g_pc = "bypass_input"
    /\ GPIOWrite(GPIO_COMMAND_CONFIG, AllInput(g_cache))
    /\ g_ret' = IF g_op = "__init__" THEN "None" ELSE "True, None"
    /\ g_built' = TRUE
    /\ g_pc' = "idle"
    /\ UNCHANGED <<nonSupply, g_op, g_channel, g_cache, g_calls, g_p67>>

InitSupply == InaParked /\ TeensyInit /\ PybInit /\ ItemInit /\ SupplyInit

NextSupply ==
    \/ supply_call_init
    \/ supply_call_set_ina_channel
    \/ supply_call_bypass
    \/ supply_init_output
    \/ set_ina_channel_read
    \/ set_ina_channel_set
    \/ set_ina_channel_reset
    \/ bypass_read
    \/ bypass_latch
    \/ bypass_input

SpecSupply == InitSupply /\ [][NextSupply]_vars


------------------------------------------------------------------------------
(* C22: the relay operations keep bits 6-7 and end with bits 0-5 set *)

\* bits 6-7 of a byte, by arithmetic
Bits67(x) == (x \div 64) * 64

\* a byte with the 2-bit field at shift s replaced by 0b10, by arithmetic
FieldSet(x, s) == x - ((x \div (2 ^ s)) % 4) * (2 ^ s) + 2 * (2 ^ s)

IsConfigWrite(e) == e.kind = "write" /\ e.reg = 3

\* the values the method in progress wrote to the configuration register
ConfigWrites ==
    [i \in 1..Len(SelectSeq(g_log, IsConfigWrite)) |->
        SelectSeq(g_log, IsConfigWrite)[i].val]

SupplyDone(method) == g_op = method /\ g_pc = "idle"

KnownShift(channel) ==
    IF channel = "V1" THEN 0 ELSE IF channel = "V2" THEN 2 ELSE 4

\* C22: bits 6-7 of the configuration register never change; bypass(), also
\* as called by __init__, writes 0x15 | p67 and then 0x3F | p67;
\* _set_ina_channel of V1, V2 or V3 returns True after writing the value read
\* with that channel's 2-bit field replaced by 0b10 and then 0x3F | p67, p67
\* being bits 6-7 of the value read; with an unknown channel it returns False
\* and writes nothing; so between the calls on a built instance the register
\* is 0x3F | p67. The three computed values are as stated for every byte
\* read, not only for those a built instance reads.
C22_RelayWritesKeepP67 ==
    /\ Bits67(g_config) = g_p67
    /\ (g_built /\ g_pc = "idle") => g_config = 63 + g_p67
    /\ (SupplyDone("bypass") \/ SupplyDone("__init__")) =>
           ConfigWrites = <<21 + Bits67(g_cache), 63 + Bits67(g_cache)>>
    /\ (SupplyDone("_set_ina_channel") /\ g_channel \in {"V1", "V2", "V3"}) =>
           /\ g_ret = "True"
           /\ ConfigWrites = <<FieldSet(g_cache, KnownShift(g_channel)),
                               63 + Bits67(g_cache)>>
    /\ (SupplyDone("_set_ina_channel") /\ g_channel \notin {"V1", "V2", "V3"}) =>
           /\ g_ret = "False"
           /\ SelectSeq(g_log, LAMBDA e : e.kind = "write") = <<>>
    /\ g_op = "none" =>
           \A x \in 0..255 :
               /\ ResetLatches(x) = 21 + Bits67(x)
               /\ AllInput(x) = 63 + Bits67(x)
               /\ \A channel \in {"V1", "V2", "V3"} :
                      SetChannel(x, RelayShift(channel))
                          = FieldSet(x, KnownShift(channel))

\* C22 witness: the third call on an instance whose register had bit 7 set
\* and bit 6 clear, _set_ina_channel("V2"), has returned
C22_Witness ==
    /\ SupplyDone("_set_ina_channel")
    /\ g_channel = "V2"
    /\ g_p67 = 128
    /\ g_calls = 3
    /\ Len(ConfigWrites) = 2

====
